---- MODULE Spec2Model ----
(***************************************************************************)
(* Model of src/main.go: the websocket connection registry                 *)
(* (connections, connLock), the per-connection reader goroutine started by *)
(* the GET /metrics handler, and the sendMetrics loop with getMetrics and  *)
(* its networkMetrics map (netLock).                                       *)
(*                                                                         *)
(* Interface names are modelled by their rank in the lexicographic order   *)
(* of the real names (1 < 2 < ...), so that sort.Slice's comparison of     *)
(* names is the comparison of ranks.  CPU, memory and disk values are      *)
(* copied through by the code and are not read again; only the failure of  *)
(* their queries is modelled.                                              *)
(***************************************************************************)
EXTENDS Integers, Sequences, FiniteSets, TLC

\* ------------------------------------------------------------------ bounds
\* Number of inbound /metrics requests (each yields at most one *websocket.Conn).
MaxConns == 2
\* Largest cumulative byte counter the provider reports.
MaxCounter == 1

Conns == 1..MaxConns
\* uint64 arithmetic, scaled: counters live in 0..MaxCounter and wrap modulo
\* MaxCounter + 1 (2^64 in the program).
Modulus == MaxCounter + 1
Counters == 0..MaxCounter
\* Interface names, by lexicographic rank.
Ifaces == {1, 2}

VARIABLES
    connections,     \* var connections: the set of keys of the map
    connLock,        \* owner of connLock
    netLock,         \* owner of netLock
    chan,            \* per conn: "none" (not upgraded), "open", "closed" (conn.Close() called)
    hpc,             \* per request: position of the GET /metrics handler
    wpc,             \* per conn: position of the reader goroutine
    spc,             \* position of the sendMetrics goroutine
    networkMetrics,  \* sendMetrics' map name -> cumulative counters (a function on the names seen)
    netStats,        \* getMetrics' netStats, the provider's report of this call
    metrics,         \* the Metrics value of this tick
    visited,         \* keys the range loop has already produced in this pass
    cur,             \* the key the range loop is at
    passStart,       \* history: the registry when the pass took connLock
    attempt,         \* history: per conn, the value passed to WriteJSON in this tick
    sent,            \* history: per conn, the value WriteJSON delivered in this tick
    writeFailed,     \* history: conns whose WriteJSON failed in this tick
    failedEver,      \* history: conns whose WriteJSON ever failed
    pmOutcome,       \* history of the tick: what `pm2 jlist` did ("none": not run)
    gap,             \* history: how the tick before ended, if it ended without a broadcast
    seen,            \* history: interfaces reported in some sampling cycle so far
    lastReport,      \* history: name -> counters reported in the last sampling cycle
    seenBefore,      \* history of the tick: seen, before this tick's sampling cycle
    prevReport,      \* history of the tick: lastReport, before this tick's sampling cycle
    lastObserved,    \* history: name -> counters in the last report that had the name
    observedBefore   \* history of the tick: lastObserved, before this tick's sampling cycle

vars == <<connections, connLock, netLock, chan, hpc, wpc, spc, networkMetrics,
          netStats, metrics, visited, cur, passStart, attempt, sent, writeFailed,
          failedEver, pmOutcome, gap, seen, lastReport, seenBefore, prevReport,
          lastObserved, observedBefore>>

connVars == <<chan, hpc, wpc>>
netVars == <<networkMetrics, netStats, seen, lastReport, seenBefore, prevReport, gap,
             lastObserved, observedBefore>>
passVars == <<visited, cur, passStart, attempt, sent, writeFailed, failedEver>>

\* ------------------------------------------------------------------ locks
Free == <<"free", 0>>
Sched == <<"sched", 0>>
HandlerOf(c) == <<"handler", c>>
WatcherOf(c) == <<"watcher", c>>

\* sync.Mutex.Lock returns only when the mutex is not held.
CanLock(lock) == lock = Free

\* ------------------------------------------------------------ the registry
\* addConnection's critical section: connections[conn] = true.
Registered(conns, c) == conns \cup {c}

\* Mutant: the delete is left out.
UnregisteredKeeps(conns, c) == conns

\* Mutant: deleting an absent key drops some other key.
UnregisteredPops(conns, c) ==
    IF c \in conns \/ conns = {} THEN conns \ {c}
    ELSE conns \ {CHOOSE d \in conns : TRUE}

\* removeConnection's critical section and sendMetrics' delete(connections, conn):
\* Go's delete of an absent key is a no-op.
Unregistered(conns, c) == conns \ {c}

\* ------------------------------------------------------------ getMetrics
NetworkUsage(n, s, r) == [Name |-> n, BytesSent |-> s, BytesRecv |-> r]

\* The reports net.IOCounters(true) can return over the interfaces N with sent
\* counters in S and received counters in C: one entry per interface that is up,
\* in the provider's order.
Reports(N, S, C) ==
    { s \in UNION { [1..k -> [Name : N, BytesSent : S, BytesRecv : C]] :
                      k \in 0..Cardinality(N) } :
        \A i, j \in DOMAIN s : i # j => s[i].Name # s[j].Name }

\* A report as a function name -> counters.
AsMap(report) ==
    [ n \in { report[i].Name : i \in DOMAIN report } |->
        LET i == CHOOSE i \in DOMAIN report : report[i].Name = n
        IN  [BytesSent |-> report[i].BytesSent, BytesRecv |-> report[i].BytesRecv] ]

\* The counters last reported for each name, after one more report.
Observed(obs, report) ==
    [ n \in DOMAIN obs \cup DOMAIN AsMap(report) |->
        IF n \in DOMAIN AsMap(report) THEN AsMap(report)[n] ELSE obs[n] ]

\* Mutant: a difference below zero is clamped to zero.
USubClamped(a, b) == IF a < b THEN 0 ELSE a - b

\* uint64 subtraction (deltaSent -= prev.BytesSent).
USub(a, b) == (a - b) % Modulus

\* Mutant: the previous counters are never subtracted.
DeltaEntryAbsolute(nm, netStat) ==
    NetworkUsage(netStat.Name, netStat.BytesSent, netStat.BytesRecv)

\* One iteration of the loop over netStats: the delta entry appended to
\* metrics.Network for netStat, given the map as it is at that iteration.
DeltaEntry(nm, netStat) ==
    IF netStat.Name \in DOMAIN nm
    THEN NetworkUsage(netStat.Name,
                      USub(netStat.BytesSent, nm[netStat.Name].BytesSent),
                      USub(netStat.BytesRecv, nm[netStat.Name].BytesRecv))
    ELSE NetworkUsage(netStat.Name, netStat.BytesSent, netStat.BytesRecv)

\* Mutant: an interface already in the map keeps its old counters.
StoredFirstOnly(nm, netStat) ==
    [ n \in DOMAIN nm \cup {netStat.Name} |->
        IF n \in DOMAIN nm THEN nm[n]
        ELSE [BytesSent |-> netStat.BytesSent, BytesRecv |-> netStat.BytesRecv] ]

\* Mutant: the map is rebuilt from the current report; older entries are dropped.
StoredForgets(nm, netStat) ==
    [ n \in {netStat.Name} |->
        [BytesSent |-> netStat.BytesSent, BytesRecv |-> netStat.BytesRecv] ]

\* One iteration of the loop: networkMetrics[netStat.Name] = NetworkUsage{...}.
Stored(nm, netStat) ==
    [ n \in DOMAIN nm \cup {netStat.Name} |->
        IF n = netStat.Name
        THEN [BytesSent |-> netStat.BytesSent, BytesRecv |-> netStat.BytesRecv]
        ELSE nm[n] ]

\* The loop over netStats from entry i on: <<the map, metrics.Network>> at its end.
RECURSIVE NetLoop(_, _, _, _)
NetLoop(nm, network, stats, i) ==
    IF i > Len(stats)
    THEN <<nm, network>>
    ELSE NetLoop(Stored(nm, stats[i]), Append(network, DeltaEntry(nm, stats[i])),
                 stats, i + 1)

\* sort.Slice's less function.
Less(a, b) == a.Name < b.Name

\* sort.Slice(metrics.Network, less): insertion of each entry into a sorted prefix.
RECURSIVE Insert(_, _)
Insert(sorted, e) ==
    IF sorted = <<>> THEN <<e>>
    ELSE IF Less(e, Head(sorted)) THEN <<e>> \o sorted
    ELSE <<Head(sorted)>> \o Insert(Tail(sorted), e)

\* Mutant: the slice is left in the order of the appends.
SortByNameKeeps(s) == s

RECURSIVE SortByName(_)
SortByName(s) == IF s = <<>> THEN <<>> ELSE Insert(SortByName(Tail(s)), Head(s))

\* A Go slice of process records: nil, or a (possibly empty) list.
NilSlice == [isNil |-> TRUE, elems |-> <<>>]
Slice(s) == [isNil |-> FALSE, elems |-> s]

\* What `pm2 jlist` can do: the command fails, or prints one of these outputs.
Pm2Outcomes == {"cmd-error", "[]", "[p]", "[p,"}

\* getPm2Metrics: [processes, err].  json.Unmarshal leaves what it decoded before
\* a syntax error in processes.
getPm2Metrics(outcome) ==
    CASE outcome = "cmd-error" -> [processes |-> NilSlice, err |-> TRUE]
      [] outcome = "[]"        -> [processes |-> Slice(<<>>), err |-> FALSE]
      [] outcome = "[p]"       -> [processes |-> Slice(<<"p">>), err |-> FALSE]
      [] outcome = "[p,"       -> [processes |-> Slice(<<"p">>), err |-> TRUE]
      [] OTHER                 -> [processes |-> NilSlice, err |-> TRUE]

\* Mutant: the process list is assigned whatever err is.
WithPm2Always(m, res) == [m EXCEPT !.PM2 = res.processes]

\* if err == nil { metrics.PM2 = pm2Metrics }
WithPm2(m, res) == IF res.err THEN m ELSE [m EXCEPT !.PM2 = res.processes]

\* var metrics Metrics
ZeroMetrics == [Network |-> <<>>, PM2 |-> NilSlice]

\* ------------------------------------------------------------------- Init
Init ==
    /\ connections = {}
    /\ connLock = Free
    /\ netLock = Free
    /\ chan = [c \in Conns |-> "none"]
    /\ hpc = [c \in Conns |-> "idle"]
    /\ wpc = [c \in Conns |-> "none"]
    /\ spc = "sleep"
    /\ networkMetrics = <<>>
    /\ netStats = <<>>
    /\ metrics = ZeroMetrics
    /\ visited = {}
    /\ cur = 0
    /\ passStart = {}
    /\ attempt = [c \in Conns |-> <<>>]
    /\ sent = [c \in Conns |-> <<>>]
    /\ writeFailed = {}
    /\ failedEver = {}
    /\ pmOutcome = "none"
    /\ gap = "none"
    /\ seen = {}
    /\ lastReport = <<>>
    /\ seenBefore = {}
    /\ prevReport = <<>>
    /\ lastObserved = <<>>
    /\ observedBefore = <<>>

\* ------------------------------------------------- the GET /metrics handler
\* Requests are numbered in the order in which their handlers call Upgrade.
NextRequest(c) == hpc[c] = "idle" /\ \A d \in Conns : d < c => hpc[d] # "idle"

\* upgrader.Upgrade succeeds: ws is a new open connection.
UpgradeOk(c) ==
    /\ NextRequest(c)
    /\ chan' = [chan EXCEPT ![c] = "open"]
    /\ hpc' = [hpc EXCEPT ![c] = "add"]
    /\ UNCHANGED <<connections, connLock, netLock, wpc, spc, metrics, pmOutcome>>
    /\ UNCHANGED <<netVars, passVars>>

\* Mutant: the handler registers the nil connection of a failed upgrade.
UpgradeFailRegisters(c) ==
    /\ NextRequest(c)
    /\ hpc' = [hpc EXCEPT ![c] = "failed"]
    /\ connections' = Registered(connections, c)
    /\ UNCHANGED <<connLock, netLock, chan, wpc, spc, metrics, pmOutcome>>
    /\ UNCHANGED <<netVars, passVars>>

\* upgrader.Upgrade fails: the handler answers 400 and returns.
UpgradeFail(c) ==
    /\ NextRequest(c)
    /\ hpc' = [hpc EXCEPT ![c] = "failed"]
    /\ UNCHANGED <<connections, connLock, netLock, chan, wpc, spc, metrics, pmOutcome>>
    /\ UNCHANGED <<netVars, passVars>>

\* Mutant: addConnection does not wait for connLock.
AddLockNoWait(c) ==
    /\ hpc[c] = "add"
    /\ hpc' = [hpc EXCEPT ![c] = "adding"]
    /\ UNCHANGED <<connections, connLock, netLock, chan, wpc, spc, metrics, pmOutcome>>
    /\ UNCHANGED <<netVars, passVars>>

\* addConnection: connLock.Lock()
AddLock(c) ==
    /\ hpc[c] = "add"
    /\ CanLock(connLock)
    /\ connLock' = HandlerOf(c)
    /\ hpc' = [hpc EXCEPT ![c] = "adding"]
    /\ UNCHANGED <<connections, netLock, chan, wpc, spc, metrics, pmOutcome>>
    /\ UNCHANGED <<netVars, passVars>>

\* addConnection: connections[conn] = true; connLock.Unlock()
addConnection(c) ==
    /\ hpc[c] = "adding"
    /\ connections' = Registered(connections, c)
    /\ connLock' = Free
    /\ hpc' = [hpc EXCEPT ![c] = "spawn"]
    /\ UNCHANGED <<netLock, chan, wpc, spc, metrics, pmOutcome>>
    /\ UNCHANGED <<netVars, passVars>>

\* go func(conn) {...}(ws): the reader goroutine starts; the handler returns.
Spawn(c) ==
    /\ hpc[c] = "spawn"
    /\ hpc' = [hpc EXCEPT ![c] = "done"]
    /\ wpc' = [wpc EXCEPT ![c] = "read"]
    /\ UNCHANGED <<connections, connLock, netLock, chan, spc, metrics, pmOutcome>>
    /\ UNCHANGED <<netVars, passVars>>

\* ------------------------------------------------- the reader goroutine
\* conn.NextReader() returns an error (the peer closed or failed, or the
\* connection was closed locally): break out of the loop.
ReadError(c) ==
    /\ wpc[c] = "read"
    /\ wpc' = [wpc EXCEPT ![c] = "close"]
    /\ UNCHANGED <<connections, connLock, netLock, chan, hpc, spc, metrics, pmOutcome>>
    /\ UNCHANGED <<netVars, passVars>>

\* Mutant: the deferred function does not close the connection.
WatcherCloseSkips(c) ==
    /\ wpc[c] = "close"
    /\ wpc' = [wpc EXCEPT ![c] = "remove"]
    /\ UNCHANGED <<connections, connLock, netLock, chan, hpc, spc, metrics, pmOutcome>>
    /\ UNCHANGED <<netVars, passVars>>

\* deferred: conn.Close()
WatcherClose(c) ==
    /\ wpc[c] = "close"
    /\ chan' = [chan EXCEPT ![c] = "closed"]
    /\ wpc' = [wpc EXCEPT ![c] = "remove"]
    /\ UNCHANGED <<connections, connLock, netLock, hpc, spc, metrics, pmOutcome>>
    /\ UNCHANGED <<netVars, passVars>>

\* Mutant: removeConnection does not wait for connLock.
RemoveLockNoWait(c) ==
    /\ wpc[c] = "remove"
    /\ wpc' = [wpc EXCEPT ![c] = "removing"]
    /\ UNCHANGED <<connections, connLock, netLock, chan, hpc, spc, metrics, pmOutcome>>
    /\ UNCHANGED <<netVars, passVars>>

\* deferred: removeConnection: connLock.Lock()
RemoveLock(c) ==
    /\ wpc[c] = "remove"
    /\ CanLock(connLock)
    /\ connLock' = WatcherOf(c)
    /\ wpc' = [wpc EXCEPT ![c] = "removing"]
    /\ UNCHANGED <<connections, netLock, chan, hpc, spc, metrics, pmOutcome>>
    /\ UNCHANGED <<netVars, passVars>>

\* removeConnection: delete(connections, conn); connLock.Unlock(); the goroutine ends.
removeConnection(c) ==
    /\ wpc[c] = "removing"
    /\ connections' = Unregistered(connections, c)
    /\ connLock' = Free
    /\ wpc' = [wpc EXCEPT ![c] = "done"]
    /\ UNCHANGED <<netLock, chan, hpc, spc, metrics, pmOutcome>>
    /\ UNCHANGED <<netVars, passVars>>

\* ------------------------------------------------- the sendMetrics goroutine
\* time.Sleep(1 * time.Second) returns: a new tick.
Wake ==
    /\ spc = "sleep"
    /\ spc' = "check"
    /\ UNCHANGED <<connections, connLock, netLock, connVars, metrics, pmOutcome>>
    /\ UNCHANGED <<netVars, passVars>>

\* connLock.Lock() before the emptiness test.
CheckLock ==
    /\ spc = "check"
    /\ CanLock(connLock)
    /\ connLock' = Sched
    /\ spc' = "checking"
    /\ UNCHANGED <<connections, netLock, connVars, metrics, pmOutcome>>
    /\ UNCHANGED <<netVars, passVars>>

\* Mutant: the unlock after the emptiness test is left out.
CheckEmptyKeepsLock ==
    /\ spc = "checking"
    /\ connLock' = IF connections = {} THEN Free ELSE connLock
    /\ spc' = IF connections = {} THEN "sleep" ELSE "cpu"
    /\ gap' = IF connections = {} THEN "empty" ELSE gap
    /\ UNCHANGED <<connections, netLock, connVars, metrics, pmOutcome>>
    /\ UNCHANGED <<networkMetrics, netStats, seen, lastReport, seenBefore, prevReport>>
    /\ UNCHANGED <<lastObserved, observedBefore>>
    /\ UNCHANGED passVars

\* Mutant: the emptiness test is left out; every tick goes on to sample.
CheckEmptySamples ==
    /\ spc = "checking"
    /\ connLock' = Free
    /\ spc' = "cpu"
    /\ UNCHANGED <<connections, netLock, connVars, metrics, pmOutcome>>
    /\ UNCHANGED <<netVars, passVars>>

\* if len(connections) == 0 { connLock.Unlock(); continue }; connLock.Unlock()
CheckEmpty ==
    /\ spc = "checking"
    /\ connLock' = Free
    /\ spc' = IF connections = {} THEN "sleep" ELSE "cpu"
    /\ gap' = IF connections = {} THEN "empty" ELSE gap
    /\ UNCHANGED <<connections, netLock, connVars, metrics, pmOutcome>>
    /\ UNCHANGED <<networkMetrics, netStats, seen, lastReport, seenBefore, prevReport>>
    /\ UNCHANGED <<lastObserved, observedBefore>>
    /\ UNCHANGED passVars

\* Mutant: the error is logged and the loop goes on to the broadcast.
QueryFailedSends ==
    /\ spc' = "send"
    /\ gap' = "error"
    /\ UNCHANGED <<connections, connLock, netLock, connVars, metrics, pmOutcome>>
    /\ UNCHANGED <<networkMetrics, netStats, seen, lastReport, seenBefore, prevReport>>
    /\ UNCHANGED <<lastObserved, observedBefore>>
    /\ UNCHANGED passVars

\* getMetrics returns (metrics, err) with err != nil; sendMetrics logs and continues.
QueryFailed ==
    /\ spc' = "sleep"
    /\ gap' = "error"
    /\ UNCHANGED <<connections, connLock, netLock, connVars, metrics, pmOutcome>>
    /\ UNCHANGED <<networkMetrics, netStats, seen, lastReport, seenBefore, prevReport>>
    /\ UNCHANGED <<lastObserved, observedBefore>>
    /\ UNCHANGED passVars

QueryPassed(next) ==
    /\ spc' = next
    /\ UNCHANGED <<connections, connLock, netLock, connVars, metrics, pmOutcome>>
    /\ UNCHANGED <<netVars, passVars>>

\* cpu.Percent(0, true)
QueryCPU ==
    /\ spc = "cpu"
    /\ QueryPassed("mem") \/ QueryFailed

\* mem.VirtualMemory()
QueryMem ==
    /\ spc = "mem"
    /\ QueryPassed("disk") \/ QueryFailed

\* disk.Usage("/")
QueryDisk ==
    /\ spc = "disk"
    /\ QueryPassed("net") \/ QueryFailed

\* net.IOCounters(true) fails.
QueryNetFail ==
    /\ spc = "net"
    /\ QueryFailed

\* net.IOCounters(true) returns one of the reports R: a sampling cycle.
QueryNetOk(R) ==
    /\ spc = "net"
    /\ \E report \in R :
        /\ netStats' = report
        /\ seenBefore' = seen
        /\ prevReport' = lastReport
        /\ seen' = seen \cup DOMAIN AsMap(report)
        /\ lastReport' = AsMap(report)
        /\ observedBefore' = lastObserved
        /\ lastObserved' = Observed(lastObserved, report)
    /\ UNCHANGED gap
    /\ spc' = "netLock"
    /\ UNCHANGED <<connections, connLock, netLock, connVars, metrics, pmOutcome>>
    /\ UNCHANGED <<networkMetrics, passVars>>

\* netLock.Lock()
NetLock ==
    /\ spc = "netLock"
    /\ CanLock(netLock)
    /\ netLock' = Sched
    /\ spc' = "netLoop"
    /\ UNCHANGED <<connections, connLock, connVars, metrics, pmOutcome>>
    /\ UNCHANGED <<netVars, passVars>>

\* The loop over netStats, sort.Slice, netLock.Unlock().
NetUpdate ==
    /\ spc = "netLoop"
    /\ LET end == NetLoop(networkMetrics, <<>>, netStats, 1)
       IN  /\ networkMetrics' = end[1]
           /\ metrics' = [metrics EXCEPT !.Network = SortByName(end[2])]
    /\ netLock' = Free
    /\ spc' = "pm2"
    /\ UNCHANGED <<connections, connLock, connVars, pmOutcome>>
    /\ UNCHANGED <<netStats, seen, lastReport, seenBefore, prevReport, gap, passVars>>
    /\ UNCHANGED <<lastObserved, observedBefore>>

\* pm2Metrics, err := getPm2Metrics(); if err == nil {...}; return metrics, nil.
\* getMetrics returns: its local netStats is dead.
Pm2(O) ==
    /\ spc = "pm2"
    /\ \E outcome \in O :
        LET res == getPm2Metrics(outcome)
        IN  /\ metrics' = WithPm2(metrics, res)
            /\ pmOutcome' = outcome
    /\ netStats' = <<>>
    /\ spc' = "send"
    /\ UNCHANGED <<connections, connLock, netLock, connVars>>
    /\ UNCHANGED <<networkMetrics, seen, lastReport, seenBefore, prevReport, gap, passVars>>
    /\ UNCHANGED <<lastObserved, observedBefore>>

\* connLock.Lock() before the range loop.
SendLock ==
    /\ spc = "send"
    /\ CanLock(connLock)
    /\ connLock' = Sched
    /\ passStart' = connections
    /\ visited' = {}
    /\ spc' = "range"
    /\ UNCHANGED <<connections, netLock, connVars, metrics, pmOutcome>>
    /\ UNCHANGED <<netVars, cur, attempt, sent, writeFailed, failedEver>>

\* Mutant: the loop produces keys it has already produced.
RemainingRevisits(conns, done) == conns

\* for conn := range connections: the keys the loop can still produce.  A key
\* deleted before it is reached is not produced; each key is produced once.
Remaining(conns, done) == conns \ done

\* The loop produces its next key and calls conn.WriteJSON(metrics).
RangeNext ==
    /\ spc = "range"
    /\ \E c \in Remaining(connections, visited) :
        /\ cur' = c
        /\ attempt' = [attempt EXCEPT ![c] = Append(@, metrics)]
    /\ spc' = "write"
    /\ UNCHANGED <<connections, connLock, netLock, connVars, metrics, pmOutcome>>
    /\ UNCHANGED <<netVars, visited, passStart, sent, writeFailed, failedEver>>

\* The loop ends: connLock.Unlock(), back to time.Sleep.  The tick's metrics value
\* is dead and the tick's history ends.
RangeDone ==
    /\ spc = "range"
    /\ Remaining(connections, visited) = {}
    /\ connLock' = Free
    /\ spc' = "sleep"
    /\ metrics' = ZeroMetrics
    /\ pmOutcome' = "none"
    /\ cur' = 0
    /\ visited' = {}
    /\ passStart' = {}
    /\ attempt' = [c \in Conns |-> <<>>]
    /\ sent' = [c \in Conns |-> <<>>]
    /\ writeFailed' = {}
    /\ seenBefore' = {}
    /\ prevReport' = <<>>
    /\ observedBefore' = <<>>
    /\ gap' = "none"
    /\ UNCHANGED <<connections, netLock, connVars, failedEver>>
    /\ UNCHANGED <<networkMetrics, netStats, seen, lastReport, lastObserved>>

\* conn.WriteJSON(metrics) returns nil: possible only on a connection not closed.
WriteOk ==
    /\ spc = "write"
    /\ chan[cur] = "open"
    /\ sent' = [sent EXCEPT ![cur] = Append(@, metrics)]
    /\ visited' = visited \cup {cur}
    /\ spc' = "range"
    /\ UNCHANGED <<connections, connLock, netLock, connVars, metrics, pmOutcome>>
    /\ UNCHANGED <<netVars, cur, passStart, attempt, writeFailed, failedEver>>

\* Mutant: the failed write resets the whole registry.
AfterFailedWriteClears(conns, c) == {}

\* The registry after a failed write: delete(connections, conn).
AfterFailedWrite(conns, c) == Unregistered(conns, c)

\* Mutant: the failure handling deletes the key without closing the connection.
WriteFailLeaks ==
    /\ spc = "write"
    /\ connections' = AfterFailedWrite(connections, cur)
    /\ visited' = visited \cup {cur}
    /\ writeFailed' = writeFailed \cup {cur}
    /\ failedEver' = failedEver \cup {cur}
    /\ spc' = "range"
    /\ UNCHANGED <<connLock, netLock, connVars, metrics, pmOutcome>>
    /\ UNCHANGED <<netVars, cur, passStart, attempt, sent>>

\* conn.WriteJSON(metrics) returns an error: log, conn.Close(), delete(connections, conn).
WriteFail ==
    /\ spc = "write"
    /\ chan' = [chan EXCEPT ![cur] = "closed"]
    /\ connections' = AfterFailedWrite(connections, cur)
    /\ visited' = visited \cup {cur}
    /\ writeFailed' = writeFailed \cup {cur}
    /\ failedEver' = failedEver \cup {cur}
    /\ spc' = "range"
    /\ UNCHANGED <<connLock, netLock, hpc, wpc, metrics, pmOutcome>>
    /\ UNCHANGED <<netVars, cur, passStart, attempt, sent>>

\* ------------------------------------------------------- specifications
Handler(c) == UpgradeOk(c) \/ UpgradeFail(c) \/ AddLock(c) \/ addConnection(c) \/ Spawn(c)

Watcher(c) == ReadError(c) \/ WatcherClose(c) \/ RemoveLock(c) \/ removeConnection(c)

Sampling(R, O) ==
    \/ QueryCPU \/ QueryMem \/ QueryDisk \/ QueryNetFail \/ QueryNetOk(R)
    \/ NetLock \/ NetUpdate \/ Pm2(O)

Broadcast == SendLock \/ RangeNext \/ RangeDone \/ WriteOk \/ WriteFail

\* The registry specification: every request, connection and write outcome, with
\* reports of one interface whose counters stand at 1.
FewReports == Reports({1}, {1}, {1})

Next ==
    \/ \E c \in Conns : Handler(c) \/ Watcher(c)
    \/ Wake \/ CheckLock \/ CheckEmpty
    \/ Sampling(FewReports, Pm2Outcomes)
    \/ Broadcast

Spec == Init /\ [][Next]_vars

\* The registry specification under the fairness the Go runtime gives: every
\* goroutine that can take a step eventually takes one, and a goroutine waiting in
\* sync.Mutex.Lock gets the mutex if it is released again and again (the mutex
\* hands over to a starved waiter).  Nothing makes a request arrive, a peer close
\* its end, or a WriteJSON call on an open connection return: the code sets no
\* write deadline.  A write on a connection closed locally does return, with an error.
ClosedWriteReturns == spc = "write" /\ chan[cur] = "closed" /\ WriteFail

SchedulerRuns ==
    \/ Wake \/ CheckEmpty
    \/ QueryCPU \/ QueryMem \/ QueryDisk \/ QueryNetFail \/ QueryNetOk(FewReports)
    \/ NetLock \/ NetUpdate \/ Pm2(Pm2Outcomes)
    \/ RangeNext \/ RangeDone

Fairness ==
    /\ WF_vars(SchedulerRuns)
    /\ WF_vars(ClosedWriteReturns)
    /\ SF_vars(CheckLock)
    /\ SF_vars(SendLock)
    /\ \A c \in Conns :
         /\ WF_vars(addConnection(c) \/ Spawn(c))
         /\ SF_vars(AddLock(c))
         /\ WF_vars(WatcherClose(c) \/ removeConnection(c))
         /\ SF_vars(RemoveLock(c))

FairSpec == Spec /\ Fairness

\* The registry specification when, besides, every WriteJSON call returns: the
\* peer of every subscriber keeps reading or its connection breaks.
WritesReturn == WF_vars(WriteOk \/ WriteFail)

LiveSpec == FairSpec /\ WritesReturn

\* The sampling specification: every report over Ifaces with sent counters in
\* Counters and received counters at the ends of their range, with clients that
\* connect one after the other, upgrades and writes that succeed, and a process
\* manager that fails or lists one process.
NetConns == {1, 2}
AllReports == Reports(Ifaces, Counters, {0, MaxCounter})
Turn(c) == \A d \in NetConns : d < c => wpc[d] = "done"

NetNext ==
    \/ \E c \in NetConns :
          \/ Turn(c) /\ UpgradeOk(c)
          \/ AddLock(c) \/ addConnection(c) \/ Spawn(c)
          \/ Watcher(c)
    \/ Wake \/ CheckLock \/ CheckEmpty
    \/ Sampling(AllReports, {"cmd-error", "[p]"})
    \/ SendLock \/ RangeNext \/ RangeDone \/ WriteOk

NetSpec == Init /\ [][NetNext]_vars

\* =================================================================== claims
InPass == spc \in {"range", "write"}
PassEnd == spc = "range" /\ Remaining(connections, visited) = {}
Sampled == spc \in {"pm2", "send", "range", "write"}
Built == spc \in {"send", "range", "write"}

\* C1: partial-failure isolation.  During a broadcast pass every subscriber whose
\* write failed is closed and out of the registry; when the range loop ends, every
\* subscriber of the registry at the start of the pass has had one WriteJSON call
\* with this tick's metrics, those whose write succeeded were delivered it, and
\* the registry is the starting membership minus exactly the failed ones.
C1_PartialFailureIsolation ==
    /\ InPass =>
         /\ writeFailed \cap connections = {}
         /\ \A c \in writeFailed : chan[c] = "closed"
    /\ PassEnd =>
         /\ connections = passStart \ writeFailed
         /\ \A c \in passStart : attempt[c] = <<metrics>>
         /\ \A c \in passStart \ writeFailed : sent[c] = <<metrics>>

\* C1 witness: a pass over two subscribers ends with one failed and one delivered.
C1_Witness ==
    /\ PassEnd
    /\ \E a, b \in passStart :
         /\ a \in writeFailed
         /\ b \notin writeFailed
         /\ sent[b] = <<metrics>>
         /\ connections = {b}

\* C2: a subscriber whose write failed in some cycle is in the registry at the
\* start of no later cycle (in fact in no later state), whatever the handlers and
\* the reader goroutines do in between.
C2_FailedNeverBack ==
    /\ failedEver \cap connections = {}
    /\ spc \in {"sleep", "check", "checking"} => \A c \in failedEver : c \notin connections

\* C2 witness: a later cycle starts after a write failure, with the failed
\* subscriber's reader goroutine finished and another subscriber registered.
C2_Witness ==
    /\ spc = "check"
    /\ \E c \in failedEver : wpc[c] = "done"
    /\ connections # {}

NothingWritten == \A c \in Conns : attempt[c] = <<>> /\ sent[c] = <<>>

\* A step of the scheduler out of a mandatory query that does not go on to the
\* next stage of getMetrics ends the tick and touches nothing else.
C3_FailureStep ==
    (spc \in {"cpu", "mem", "disk", "net"} /\ spc' \notin {spc, "mem", "disk", "net", "netLock"})
        => /\ spc' = "sleep"
           /\ gap' = "error"
           /\ connections' = connections
           /\ chan' = chan
           /\ NothingWritten'

\* C3: when a mandatory query fails, the tick ends there: the scheduler goes back
\* to sleep with no WriteJSON call made in the tick, and the step changes neither
\* the registry nor any connection.
C3_FailedQuerySkipsTick ==
    /\ [](spc \in {"check", "checking", "cpu", "mem", "disk", "net"} => NothingWritten)
    /\ [][C3_FailureStep]_vars
    /\ [](spc = "sleep" /\ gap = "error" => NothingWritten)

\* C3 witness: a tick has just ended on a failed query while a subscriber is registered.
C3_Witness == spc = "sleep" /\ gap = "error" /\ connections # {}

ErrOutcomes == {"cmd-error", "[p,"}

\* C4 as stated: the snapshot's process list is empty or omitted exactly when the
\* process manager's query or the decoding of its output failed.
C4_Original ==
    Built => ((metrics.PM2.isNil \/ metrics.PM2.elems = <<>>) <=> pmOutcome \in ErrOutcomes)

\* After the network query the scheduler only moves on, up to the range loop.
C4_NoErrorStep ==
    /\ spc \in {"netLock", "netLoop", "pm2"} => spc' \in {spc, "netLoop", "pm2", "send"}
    /\ spc = "send" => spc' \in {"send", "range"}

\* C4 amended: once the four mandatory queries have succeeded the tick never ends
\* on an error but goes on to the broadcast; the snapshot's process list is nil
\* whenever the process manager's query or the decoding failed, and otherwise it
\* is the list pm2 printed, which is empty when pm2 manages no process.
C4_Pm2NeverFailsBuild ==
    /\ [](Built =>
            /\ pmOutcome \in ErrOutcomes => metrics.PM2 = NilSlice
            /\ pmOutcome = "[]" => metrics.PM2 = Slice(<<>>)
            /\ pmOutcome = "[p]" => metrics.PM2 = Slice(<<"p">>))
    /\ [][C4_NoErrorStep]_vars

\* C4 witness: a snapshot built while pm2 failed has been delivered to a subscriber.
C4_Witness ==
    /\ InPass
    /\ pmOutcome \in ErrOutcomes
    /\ \E c \in Conns : sent[c] = <<metrics>>

\* The entries of metrics.Network for interface n.
EntriesFor(n) == { i \in DOMAIN metrics.Network : metrics.Network[i].Name = n }
EntryFor(n) == metrics.Network[CHOOSE i \in EntriesFor(n) : TRUE]

\* C5 as stated: an interface reported in this sampling cycle and in the one
\* before has delta = cumulative(k) - cumulative(k-1), and one never reported
\* before has its full cumulative counters as delta.
C5_Original ==
    Sampled =>
        \A n \in DOMAIN lastReport :
            /\ EntriesFor(n) # {}
            /\ n \in DOMAIN prevReport =>
                 /\ EntryFor(n).BytesSent = lastReport[n].BytesSent - prevReport[n].BytesSent
                 /\ EntryFor(n).BytesRecv = lastReport[n].BytesRecv - prevReport[n].BytesRecv
            /\ n \notin seenBefore =>
                 /\ EntryFor(n).BytesSent = lastReport[n].BytesSent
                 /\ EntryFor(n).BytesRecv = lastReport[n].BytesRecv

\* C5 amended: the delta of an interface reported in this sampling cycle and in
\* the one before is cumulative(k) - cumulative(k-1) in unsigned arithmetic, that
\* is modulo the word size; it is the plain difference whenever the counter has
\* not decreased.  The delta of an interface never reported before is its full
\* cumulative count.  Skipped and failed ticks between the two cycles change nothing.
C5_NetworkDelta ==
    Sampled =>
        \A n \in DOMAIN lastReport :
            /\ EntriesFor(n) # {}
            /\ n \in DOMAIN prevReport =>
                 /\ EntryFor(n).BytesSent =
                        (lastReport[n].BytesSent - prevReport[n].BytesSent) % Modulus
                 /\ EntryFor(n).BytesRecv =
                        (lastReport[n].BytesRecv - prevReport[n].BytesRecv) % Modulus
                 /\ lastReport[n].BytesSent >= prevReport[n].BytesSent =>
                        EntryFor(n).BytesSent = lastReport[n].BytesSent - prevReport[n].BytesSent
                 /\ lastReport[n].BytesRecv >= prevReport[n].BytesRecv =>
                        EntryFor(n).BytesRecv = lastReport[n].BytesRecv - prevReport[n].BytesRecv
            /\ n \notin seenBefore =>
                 /\ EntryFor(n).BytesSent = lastReport[n].BytesSent
                 /\ EntryFor(n).BytesRecv = lastReport[n].BytesRecv

\* C5 witness: after a tick skipped on an empty registry, a sampling cycle reports
\* one interface whose sent counter has grown since the cycle before, and one
\* interface for the first time.
C5_Witness ==
    /\ Sampled
    /\ gap = "empty"
    /\ \E n \in DOMAIN prevReport \cap DOMAIN lastReport :
         /\ lastReport[n].BytesSent > prevReport[n].BytesSent
         /\ EntryFor(n).BytesSent = lastReport[n].BytesSent - prevReport[n].BytesSent
    /\ \E n \in DOMAIN lastReport \ seenBefore : EntryFor(n).BytesSent > 0

\* The map changes only in the step that runs the loop over netStats, and that
\* step leaves in it the reported counters of every reported interface, one loop
\* iteration each, and the old entries of the others.
C6_Step ==
    /\ networkMetrics' # networkMetrics => spc = "netLoop" /\ spc' = "pm2"
    /\ spc = "netLoop" /\ spc' = "pm2" =>
         /\ Len(netStats) = Cardinality(DOMAIN lastReport)
         /\ DOMAIN networkMetrics' = DOMAIN networkMetrics \cup DOMAIN lastReport
         /\ \A n \in DOMAIN lastReport : networkMetrics'[n] = lastReport[n]
         /\ \A n \in DOMAIN networkMetrics \ DOMAIN lastReport :
                networkMetrics'[n] = networkMetrics[n]

\* C6: networkMetrics changes only in a getMetrics call whose network query
\* succeeded (the loop is reached only with this call's report in netStats); a
\* failed CPU, memory, disk or network query and a tick skipped on an empty
\* registry leave it unchanged; the loop overwrites the entry of each reported
\* interface with its current cumulative counters.
C6_CounterStateFrame ==
    /\ [](spc \in {"netLock", "netLoop"} => lastReport = AsMap(netStats))
    /\ [][C6_Step]_vars

\* C6 witness: after a tick that failed on a query, the loop has overwritten an
\* entry whose counters changed since the sampling cycle before.
C6_Witness ==
    /\ spc = "pm2"
    /\ gap = "error"
    /\ \E n \in DOMAIN prevReport \cap DOMAIN lastReport :
         /\ prevReport[n] # lastReport[n]
         /\ networkMetrics[n] = lastReport[n]

\* A removal by a reader goroutine removes that subscriber and nothing else, is a
\* no-op when the subscriber is not registered, and releases connLock; a removal by
\* the scheduler removes the subscriber it is writing to and nothing else.
C7_Step ==
    /\ \A c \in Conns :
         wpc[c] = "removing" /\ wpc'[c] = "done" =>
            /\ connections' = connections \ {c}
            /\ c \notin connections => connections' = connections
            /\ connLock' = Free
    /\ spc = "write" /\ spc' = "range" =>
         /\ connections \ connections' \subseteq {cur}
         /\ connections' \subseteq connections

WasRegistered(c) == hpc[c] \in {"spawn", "done"}

\* C8 as stated: no subscriber whose channel has been closed is a member of the
\* registry, and no registered-then-unregistered subscriber has an open channel.
C8_Original ==
    \A c \in Conns :
        /\ c \in connections => chan[c] = "open"
        /\ WasRegistered(c) /\ c \notin connections => chan[c] = "closed"

\* C8 amended: a member of the registry has an open channel except between its
\* reader goroutine's conn.Close() and that goroutine's removeConnection; no
\* registered-then-unregistered subscriber has an open channel.
C8_RegistryInvariant ==
    \A c \in Conns :
        /\ c \in connections /\ chan[c] # "open" =>
             chan[c] = "closed" /\ wpc[c] \in {"remove", "removing"}
        /\ WasRegistered(c) /\ c \notin connections => chan[c] = "closed"

\* C8 witness: a reader goroutine has closed its connection and not yet removed it.
C8_Witness ==
    \E c \in Conns : c \in connections /\ chan[c] = "closed" /\ wpc[c] = "remove"

\* Inside a broadcast pass the registry only loses the subscriber whose write
\* has just failed.
C9_Step ==
    InPass /\ InPass' /\ connections' # connections =>
        /\ spc = "write"
        /\ connections' = connections \ {cur}
        /\ cur \in writeFailed'

\* C9: while a broadcast pass iterates the registry, no Add of a handler and no
\* Remove of a reader goroutine takes effect: connLock is the scheduler's for the
\* whole pass and the only membership changes are the scheduler's removals after a
\* failed write; every WriteJSON call of the pass is on a current member.
C9_PassExcludesMutation ==
    /\ [][C9_Step]_vars
    /\ [](InPass => connLock = Sched)
    /\ [](spc = "write" => cur \in connections /\ cur \in passStart)

\* C9 witness: during a write of the pass a handler waits to add its connection
\* and the reader goroutine of the subscriber written to waits to remove it.
C9_Witness ==
    /\ spc = "write"
    /\ \E c, d \in Conns :
         /\ hpc[c] = "add"
         /\ wpc[d] = "remove"
         /\ d \in connections

\* C10: a stalled subscriber cannot block the others: in a broadcast pass over
\* several subscribers, every subscriber not yet written to eventually gets its
\* WriteJSON call whatever the write in progress does, and the scheduler
\* eventually gets back to its sleep.
C10_StalledWriteDoesNotBlock ==
    /\ \A c \in Conns :
         (spc = "write" /\ c \in passStart /\ attempt[c] = <<>>) ~> (attempt[c] # <<>>)
    /\ (spc = "write" /\ Cardinality(passStart) > 1) ~> (spc = "sleep")

\* The reader goroutine goes through its deferred function in order: after the
\* read error it closes the connection, then takes connLock, then deletes its own
\* key and ends; it runs each of these steps once.
C11_Step ==
    \A c \in Conns :
        wpc'[c] # wpc[c] =>
            /\ <<wpc[c], wpc'[c]>> \in { <<"none", "read">>, <<"read", "close">>,
                                          <<"close", "remove">>, <<"remove", "removing">>,
                                          <<"removing", "done">> }
            /\ wpc[c] = "close" => chan'[c] = "closed"
            /\ wpc[c] = "removing" => c \notin connections'

\* C11: on the first read error the reader goroutine closes the connection, then
\* removes the subscriber from the registry, then ends, each once; so a registered
\* subscriber whose read has failed is eventually out of the registry, and its
\* reader goroutine eventually ends.
C11_WatcherReclaims ==
    /\ [][C11_Step]_vars
    /\ \A c \in Conns :
         /\ (wpc[c] = "close" /\ c \in connections) ~> (c \notin connections)
         /\ (wpc[c] = "close") ~> (wpc[c] = "done")


\* The step of a handler whose upgrade fails changes neither the registry nor any
\* connection and starts no goroutine; a key enters the registry only in
\* addConnection, called on the open connection of a successful upgrade; a reader
\* goroutine starts only for a key that has been added (it is still registered,
\* or the scheduler has removed it again after a failed write).
C12_Step ==
    \A c \in Conns :
        /\ hpc[c] = "idle" /\ hpc'[c] = "failed" =>
              connections' = connections /\ chan' = chan /\ wpc' = wpc
        /\ c \notin connections /\ c \in connections' =>
              hpc[c] = "adding" /\ chan[c] = "open" /\ wpc[c] = "none"
        /\ wpc[c] = "none" /\ wpc'[c] # "none" =>
              c \in connections \/ c \in failedEver

\* C12: when the upgrade of a request fails, its connection is never in the
\* registry and no reader goroutine is ever started for it, and the request leaves
\* the registry as it was; only a successful upgrade adds the handle, and the
\* handle is added before its reader goroutine starts.
C12_FailedUpgradeNeverRegistered ==
    /\ [](\A c \in Conns :
            hpc[c] = "failed" => c \notin connections /\ wpc[c] = "none" /\ chan[c] = "none")
    /\ [](\A c \in connections : hpc[c] \in {"spawn", "done"})
    /\ [][C12_Step]_vars

\* C12 witness: one request's upgrade has failed while another request's
\* connection is registered and read by its goroutine.
C12_Witness ==
    \E c, d \in Conns :
        /\ hpc[c] = "failed"
        /\ d \in connections
        /\ wpc[d] = "read"
        /\ connections = {d}

\* The scheduler's step out of the emptiness test on an empty registry ends the
\* tick: it releases connLock and goes to sleep, with no query made and nothing
\* written; a range loop over an empty registry can only end.
C13_Step ==
    /\ spc = "checking" /\ connections = {} /\ spc' # spc =>
          /\ spc' = "sleep"
          /\ connLock' = Free
          /\ gap' = "empty"
          /\ metrics' = ZeroMetrics /\ pmOutcome' = "none"
          /\ networkMetrics' = networkMetrics
          /\ NothingWritten'
    /\ spc = "range" /\ passStart = {} /\ spc' # spc =>
          /\ spc' = "sleep"
          /\ connLock' = Free
          /\ NothingWritten /\ NothingWritten'

\* C13: an empty registry never makes the scheduler fail or stop.  A tick that
\* finds the registry empty before sampling makes no query and no write; a tick
\* whose registry has become empty when the broadcast takes connLock writes to
\* nobody; in both cases the scheduler gets to its next tick.
C13_EmptyRegistryProceeds ==
    /\ [][C13_Step]_vars
    /\ [](spc = "range" /\ passStart = {} => connections = {} /\ NothingWritten)
    /\ (spc = "checking" /\ connections = {}) ~> (spc = "check")
    /\ (spc = "range" /\ passStart = {}) ~> (spc = "check")

\* C13 witness: the broadcast of a tick that sampled for a subscriber has taken
\* connLock after that subscriber's reader goroutine removed it: the range loop
\* is over an empty registry.
C13_Witness ==
    /\ spc = "range"
    /\ passStart = {}
    /\ connLock = Sched
    /\ pmOutcome # "none"
    /\ \E c \in Conns : wpc[c] = "done"

\* Inside a broadcast pass the snapshot and the starting membership are fixed, and
\* the registry gains no member.
C14_Step ==
    InPass /\ InPass' =>
        /\ metrics' = metrics
        /\ passStart' = passStart
        /\ connections' \subseteq connections

\* C14: within one broadcast cycle every subscriber in the registry when the range
\* loop starts gets exactly one WriteJSON call, every call and every delivery of
\* the cycle carries the same Metrics value, the one built by this tick's
\* getMetrics, and a subscriber that was not in the registry when the loop started
\* gets no call in that cycle.
C14_OneSnapshotPerCycle ==
    /\ [](InPass =>
            /\ connections \subseteq passStart
            /\ pmOutcome # "none"
            /\ metrics.PM2 = WithPm2(ZeroMetrics, getPm2Metrics(pmOutcome)).PM2
            /\ \A c \in Conns :
                 /\ Len(attempt[c]) <= 1
                 /\ attempt[c] # <<>> => attempt[c] = <<metrics>> /\ c \in passStart
                 /\ sent[c] # <<>> => sent[c] = attempt[c]
                 /\ c \notin passStart => attempt[c] = <<>> /\ sent[c] = <<>>)
    /\ [](PassEnd => \A c \in passStart : Len(attempt[c]) = 1)
    /\ [][C14_Step]_vars

\* C14 witness: a pass over two subscribers has ended with the same snapshot, one
\* with a network entry, delivered once to each.
C14_Witness ==
    /\ PassEnd
    /\ Cardinality(passStart) = 2
    /\ metrics.Network # <<>>
    /\ \A c \in passStart : attempt[c] = <<metrics>> /\ sent[c] = <<metrics>>

\* A slice of network entries in strictly ascending order of Name.
Ascending(s) == \A i, j \in DOMAIN s : i < j => s[i].Name < s[j].Name
Names(s) == { s[i].Name : i \in DOMAIN s }

\* C15: the network entries of the Metrics value getMetrics returns are in
\* ascending order of interface name and hold exactly one entry per interface the
\* provider reported in this sampling cycle, in whatever order it reported them.
C15_NetworkSortedByName ==
    /\ Sampled =>
          /\ Ascending(metrics.Network)
          /\ Names(metrics.Network) = DOMAIN lastReport
          /\ Len(metrics.Network) = Cardinality(DOMAIN lastReport)
    /\ spc = "pm2" =>
          /\ Names(metrics.Network) = Names(netStats)
          /\ Len(metrics.Network) = Len(netStats)

\* C15 witness: the provider reported two interfaces in descending order of name
\* and the loop and the sort have produced the two entries in ascending order.
C15_Witness ==
    /\ spc = "pm2"
    /\ Len(netStats) = 2
    /\ netStats[1].Name > netStats[2].Name
    /\ Len(metrics.Network) = 2
    /\ metrics.Network[1].Name = netStats[2].Name
    /\ metrics.Network[2].Name = netStats[1].Name

\* The task that holds connLock is inside a critical section and its next step,
\* which takes no other lock, can be taken.
HolderCanStep ==
    /\ connLock = Sched =>
          /\ spc \in {"checking", "range", "write"}
          /\ ENABLED (CheckEmpty \/ RangeNext \/ RangeDone \/ WriteOk \/ WriteFail)
    /\ \A c \in Conns :
          /\ connLock = HandlerOf(c) => hpc[c] = "adding" /\ ENABLED addConnection(c)
          /\ connLock = WatcherOf(c) => wpc[c] = "removing" /\ ENABLED removeConnection(c)
    /\ netLock # Free => netLock = Sched /\ spc = "netLoop" /\ ENABLED NetUpdate

\* C16: lock discipline.  No task holds connLock and netLock at the same time and
\* the scheduler does not hold connLock while it samples; whoever holds a lock can
\* take its next step without another lock, so no state is a deadlock; and, as
\* long as every WriteJSON call returns, every addConnection and every
\* removeConnection that has been called completes.
C16_LockDiscipline ==
    /\ [](netLock # Free => connLock # netLock)
    /\ [](spc \in {"cpu", "mem", "disk", "net", "netLock", "netLoop", "pm2", "send"}
            => connLock # Sched)
    /\ []HolderCanStep
    /\ \A c \in Conns :
         /\ (hpc[c] = "add") ~> (hpc[c] = "spawn")
         /\ (wpc[c] = "remove") ~> (wpc[c] = "done")

\* C16 witness: the scheduler runs the loop over netStats under netLock while a
\* handler holds connLock in addConnection and a reader goroutine waits for
\* connLock in removeConnection.
C16_Witness ==
    /\ spc = "netLoop"
    /\ netLock = Sched
    /\ \E c, d \in Conns :
         /\ connLock = HandlerOf(c)
         /\ wpc[d] = "remove"

\* A key that leaves the registry leaves it with its connection closed; a closed
\* connection stays closed; a key out of the registry whose connection is closed
\* does not come back.
C17_Step ==
    \A c \in Conns :
        /\ c \in connections /\ c \notin connections' => chan'[c] = "closed"
        /\ chan[c] = "closed" => chan'[c] = "closed"
        /\ c \notin connections /\ chan[c] = "closed" => c \notin connections'

\* C17: no leak and no resurrection.  Once a subscriber that was registered has
\* left the registry, by the scheduler's delete or by its reader goroutine's, its
\* connection has been closed and it is never in the registry again; after a
\* subscriber's reader goroutine has ended, the subscriber is not in the registry.
C17_NoLeakNoResurrection ==
    /\ [][C17_Step]_vars
    /\ [](\A c \in Conns :
            /\ c \notin connections /\ (c \in failedEver \/ wpc[c] \in {"removing", "done"})
                  => chan[c] = "closed"
            /\ wpc[c] = "done" => c \notin connections /\ chan[c] = "closed"
            /\ c \in connections => c \notin failedEver /\ wpc[c] # "done")

\* C17 witness: one subscriber was removed by the scheduler after a failed write,
\* another by its own reader goroutine; both connections are closed, both reader
\* goroutines have ended and the registry is empty.
C17_Witness ==
    \E c, d \in Conns :
        /\ c \in failedEver /\ d \notin failedEver
        /\ wpc[c] = "done" /\ wpc[d] = "done"
        /\ chan[c] = "closed" /\ chan[d] = "closed"
        /\ connections = {}

\* C18 as stated: closing a connection and writing to it exclude each other: the
\* scheduler is never inside a WriteJSON call on a connection that is closed,
\* whether closed before the call started or during it.
C18_Original == spc = "write" => chan[cur] = "open"

\* A WriteJSON call on a connection that is closed when it returns does not
\* deliver: it fails, and the scheduler closes and deletes that subscriber and no
\* other; a delivery is made only on an open connection.
C18_Step ==
    /\ spc = "write" /\ spc' # spc /\ chan[cur] = "closed" =>
          /\ sent' = sent
          /\ cur \in writeFailed'
          /\ connections' = connections \ {cur}
    /\ \A c \in Conns : sent'[c] # sent[c] /\ sent'[c] # <<>> => chan[c] = "open"

\* C18 amended: what the scheduler's write excludes is the removal, not the
\* close.  A reader goroutine is never inside its delete while the scheduler is in
\* a broadcast pass; its conn.Close() is outside connLock, so a connection can be
\* closed during a write to it or before that write starts, and only by its own
\* reader goroutine, which then waits for connLock; such a write does not
\* deliver but fails, and the scheduler removes the subscriber.
C18_WriteExcludesRemoval ==
    /\ [](InPass => \A c \in Conns : wpc[c] # "removing")
    /\ [](spc = "write" /\ chan[cur] = "closed" => wpc[cur] = "remove" /\ cur \in connections)
    /\ [][C18_Step]_vars

\* C18 witness: the scheduler is inside a write to a subscriber whose reader
\* goroutine has closed the connection and waits for connLock, while another
\* subscriber has already been delivered this tick's snapshot.
C18_Witness ==
    /\ spc = "write"
    /\ chan[cur] = "closed"
    /\ wpc[cur] = "remove"
    /\ \E d \in Conns \ {cur} : sent[d] = <<metrics>>

\* No step deletes a key of the map, and no step changes the entry of an
\* interface that the current report does not hold.
C19_Step ==
    /\ DOMAIN networkMetrics \subseteq DOMAIN networkMetrics'
    /\ \A n \in DOMAIN networkMetrics \ DOMAIN lastReport :
          networkMetrics'[n] = networkMetrics[n]

\* C19: entries of networkMetrics are never deleted.  Outside the loop the map
\* holds, for every interface ever reported, the counters of the last report that
\* had it; an interface reported again after cycles without it gets as delta its
\* current counters minus those last observed ones (in unsigned arithmetic, the
\* plain difference when the counter has not decreased), not its full count; an
\* interface absent from a cycle's report keeps its entry and has no entry in the
\* snapshot.
C19_StateNeverDeleted ==
    /\ [][C19_Step]_vars
    /\ [](spc \notin {"netLock", "netLoop"} =>
            networkMetrics = lastObserved /\ DOMAIN networkMetrics = seen)
    /\ [](Sampled =>
            /\ \A n \in DOMAIN lastReport \cap DOMAIN observedBefore :
                 /\ EntryFor(n).BytesSent =
                        (lastReport[n].BytesSent - observedBefore[n].BytesSent) % Modulus
                 /\ EntryFor(n).BytesRecv =
                        (lastReport[n].BytesRecv - observedBefore[n].BytesRecv) % Modulus
                 /\ lastReport[n].BytesSent >= observedBefore[n].BytesSent =>
                        EntryFor(n).BytesSent =
                            lastReport[n].BytesSent - observedBefore[n].BytesSent
                 /\ lastReport[n].BytesRecv >= observedBefore[n].BytesRecv =>
                        EntryFor(n).BytesRecv =
                            lastReport[n].BytesRecv - observedBefore[n].BytesRecv
            /\ \A n \in DOMAIN observedBefore \ DOMAIN lastReport :
                 /\ networkMetrics[n] = observedBefore[n]
                 /\ EntriesFor(n) = {})

\* C19 witness: an interface reported in an earlier cycle, missing from the cycle
\* before this one and reported again now has as delta the difference to its last
\* observed counters, which is not its full count, while another interface is
\* missing from this cycle and keeps its entry.
C19_Witness ==
    /\ Sampled
    /\ \E n \in (DOMAIN lastReport \cap seenBefore) \ DOMAIN prevReport :
         /\ lastReport[n].BytesSent >= observedBefore[n].BytesSent
         /\ EntryFor(n).BytesSent = lastReport[n].BytesSent - observedBefore[n].BytesSent
         /\ EntryFor(n).BytesSent # lastReport[n].BytesSent
    /\ \E m \in DOMAIN prevReport \ DOMAIN lastReport :
         networkMetrics[m] = prevReport[m]

\* C20: deltas are unsigned differences and are not clamped.  When an
\* interface's counter is lower than the stored previous value, the delta is
\* current - previous modulo the word size, that is current - previous plus the
\* modulus, and the map is still overwritten with the current, lower counters, so
\* that the next cycle subtracts those: the value subtracted in a cycle is always
\* the one reported in the cycle before, when that cycle had the interface.
C20_UnsignedDelta ==
    /\ Sampled =>
          \A n \in DOMAIN lastReport \cap DOMAIN observedBefore :
              /\ networkMetrics[n] = lastReport[n]
              /\ n \in DOMAIN prevReport => observedBefore[n] = prevReport[n]
              /\ lastReport[n].BytesSent < observedBefore[n].BytesSent =>
                    /\ EntryFor(n).BytesSent =
                          lastReport[n].BytesSent - observedBefore[n].BytesSent + Modulus
                    /\ EntryFor(n).BytesSent > 0
              /\ lastReport[n].BytesRecv < observedBefore[n].BytesRecv =>
                    /\ EntryFor(n).BytesRecv =
                          lastReport[n].BytesRecv - observedBefore[n].BytesRecv + Modulus
                    /\ EntryFor(n).BytesRecv > 0
    /\ spc = "netLoop" =>
          \A n \in DOMAIN lastReport \cap DOMAIN prevReport :
              networkMetrics[n] = prevReport[n]

\* C20 witness: an interface's sent counter is lower than in the cycle before;
\* its delta is the difference plus the modulus and the map holds the lower value.
C20_Witness ==
    /\ Sampled
    /\ \E n \in DOMAIN lastReport \cap DOMAIN prevReport :
         /\ lastReport[n].BytesSent < prevReport[n].BytesSent
         /\ EntryFor(n).BytesSent = lastReport[n].BytesSent - prevReport[n].BytesSent + Modulus
         /\ networkMetrics[n].BytesSent = lastReport[n].BytesSent

====
